---- MODULE Spec2Model ----
\* Module loader of edon: LoadModule (content cache behind a RWMutex, four
\* scheme resolvers) and the NPM package manager's InstallPackage.
\*
\* Strings are sequences of tokens ("npm:", "@", "a", ...), so that
\* strings.TrimPrefix and strings.Split are computed, not assumed.
\* Paths are sequences of path components, so that filepath.Join and
\* os.MkdirAll are computed too.
EXTENDS Integers, Sequences, FiniteSets, TLC

\* ---------------------------------------------------------------- bounds
NumCallers == 2
MaxCalls == 3

Callers == 1..NumCallers

\* ---------------------------------------------------------------- values
\* the nil *Module
Nil == [URL |-> <<>>, Content |-> "", Type |-> "nil"]
\* no response in hand
NoResp == [status |-> 0, body |-> ""]
\* no resolver for the package type
NoResolver == "none"
None == 0
NoFile == "ENOENT"
NoErr == [kind |-> "ok", msg |-> ""]

TypeLocal == "local"
TypeCDN == "cdn"
TypeNPM == "npm"
TypeJSR == "jsr"
\* the scheme of a classification that is none of the four
TypeUnknown == "unknown"

ErrInvalidURL == "InvalidSpecifier"
ErrUnsupportedModule == "UnsupportedModuleKind"
ErrModuleNotFound == "ModuleNotFound"
ErrFileRead == "FileReadFailure"
ErrPackageFetch == "PackageFetch"
ErrPackageNotFound == "PackageNotFound"
ErrPackageInstall == "PackageInstall"
ErrCacheDir == "CacheDirFailure"
ErrJSRNotImplemented == "JSRNotImplemented"

StatusOK == 200

\* NewModuleLoader, line 43: httpClient.Timeout, in seconds
ClientTimeout == 30
\* http.Client: a Timeout of zero means no timeout
HasTimeoutNever(timeout) == FALSE
HasTimeout(timeout) == timeout > 0

\* errors.Wrap(kind, msg): the kind, with the cause kept as the message
Wrap(kind, msg) == [kind |-> kind, msg |-> msg]
\* a sentinel error returned as it is
Sentinel(kind) == [kind |-> kind, msg |-> ""]
\* err.Error()
ErrorText(e) == IF e.msg = "" THEN e.kind ELSE e.kind \o ": " \o e.msg

\* ---------------------------------------------------------------- inputs
\* specifiers handed to LoadModule
LocalSpec == <<"f.js">>
CDNSpec == <<"https://", "c.js">>
NPMSpec == <<"npm:", "a">>
JSRSpec == <<"jsr:", "a">>
BadSpec == <<"npm:">>
Specifiers == {LocalSpec, CDNSpec, NPMSpec, JSRSpec, BadSpec}

\* package names handed to InstallPackage by the install command
PackageArgs == {<<"a", "@", "latest">>}

\* package names and versions for the parsing of npm specifiers: a plain name
\* such as left-pad, and a scoped one such as @scope/name
ParseNames == {<<"a">>, <<"@", "s/b">>}
ParseVersions == {<<"1">>}
\* name@version as the user writes it
Compose(name, version) == name \o <<"@">> \o version
ParseArgs == ParseNames \cup {Compose(n, v) : n \in ParseNames, v \in ParseVersions}
ParseSpecs == {<<"npm:">> \o p : p \in ParseArgs}

\* what the local file may hold
FileContents == {"x"}
\* what a response body may hold
Bodies == {"", "x"}
\* what a server may answer
Statuses == {200, 404}

Placeholder == "// TODO: Implement package content"
CacheDir == <<"~/.edon/npm-cache">>
IndexJS == <<"index.js">>

\* ---------------------------------------------------------------- strings
HasPrefix(s, p) == Len(s) >= 1 /\ s[1] = p

\* strings.TrimPrefix
TrimPrefix(s, p) == IF HasPrefix(s, p) THEN Tail(s) ELSE s

\* strings.Split(s, sep): the pieces between the separators, empty pieces kept
RECURSIVE SplitFrom(_, _, _)
SplitFrom(s, sep, cur) ==
    IF s = <<>> THEN <<cur>>
    ELSE IF Head(s) = sep THEN <<cur>> \o SplitFrom(Tail(s), sep, <<>>)
    ELSE SplitFrom(Tail(s), sep, Append(cur, Head(s)))

Split(s, sep) == SplitFrom(s, sep, <<>>)

\* filepath.Join: empty elements are ignored
RECURSIVE Join(_)
Join(elems) ==
    IF elems = <<>> THEN <<>>
    ELSE IF Head(elems) = <<>> THEN Join(Tail(elems))
    ELSE <<Head(elems)>> \o Join(Tail(elems))

\* the directories os.MkdirAll(p) makes sure exist: p and its ancestors
Ancestors(p) == {SubSeq(p, 1, n) : n \in 1..Len(p)}

\* ---------------------------------------------------------------- classifier
\* ValidateURL: npm: -> NPM, jsr: -> JSR, http(s):// -> CDN, anything else a
\* local path; a recognised prefix with nothing after it is invalid
ValidateURL(urlStr) ==
    LET t == IF HasPrefix(urlStr, "npm:") THEN TypeNPM
             ELSE IF HasPrefix(urlStr, "jsr:") THEN TypeJSR
             ELSE IF HasPrefix(urlStr, "http://") \/ HasPrefix(urlStr, "https://") THEN TypeCDN
             ELSE TypeLocal
        ok == ~(t \in {TypeNPM, TypeJSR} /\ Len(urlStr) = 1)
    IN [IsValid |-> ok,
        PackageType |-> t,
        Error |-> IF ok THEN NoErr ELSE Wrap(ErrInvalidURL, "empty package name")]

\* ---------------------------------------------------------------- state
VARIABLES
    cache,       \* l.cache.modules: specifier -> Module or Nil
    mu,          \* l.cache.mu: the writer holding it and the readers holding it
    fs,          \* the local file system: path -> content or NoFile
    dirs,        \* directories of the on-disk package cache
    files,       \* files of the on-disk package cache: pairs <<path, content>>
    server,      \* the remote servers: "up" (they answer or refuse) or "silent" (they never respond)
    pc,          \* where each caller is
    op,          \* what each caller runs: "load" (LoadModule) or "install" (handleInstall)
    urlStr,      \* the caller's argument: urlStr of LoadModule, pkg of handleInstall
    ctx,         \* TRUE once the caller's context is cancelled
    module,      \* LoadModule's local module
    resp,        \* the HTTP response in hand: [status, body] or NoResp
    cachePath,   \* InstallPackage's cachePath
    ret,         \* what the call returned: [module, path, err]
    invoked,     \* the resolvers this call has invoked, in order
    io,          \* the kinds of I/O this call has performed
    prev,        \* what was so when the call started: the Module first cached for the specifier,
                 \* whether its latest load failed; when InstallPackage started, whether
                 \* the name and version had been installed; and whether the local file
                 \* has been missing since the call started
    failed,      \* the specifiers whose latest finished LoadModule returned an error
    installed,   \* <<name, version, path>> of every successful return of InstallPackage
    firstPut,    \* per specifier: the Module of the first completed cache insertion
    ncalls       \* calls started so far

env == <<fs, dirs, files, server>>
locals == <<module, resp, cachePath>>
hist == <<prev, failed, installed, firstPut, ncalls>>
vars == <<cache, mu, fs, dirs, files, server, pc, op, urlStr, ctx, module, resp, cachePath,
          ret, invoked, io, prev, failed, installed, firstPut, ncalls>>

NoRet == [module |-> Nil, path |-> <<>>, err |-> NoErr]
NoPrev == [module |-> Nil, failed |-> FALSE, installed |-> FALSE, missing |-> FALSE]

MkModule(u, c, t) == [URL |-> u, Content |-> c, Type |-> t]

\* NewModuleLoader: an empty cache, an unlocked mutex; nothing is running.
\* keys are the specifiers the callers will use
InitWith(keys) ==
    /\ cache = [s \in keys |-> Nil]
    /\ mu = [writer |-> None, readers |-> {}]
    /\ fs \in [{LocalSpec} -> FileContents \cup {NoFile}]
    /\ dirs = {}
    /\ files = {}
    /\ server \in {"up", "silent"}
    /\ pc = [g \in Callers |-> "idle"]
    /\ op = [g \in Callers |-> "load"]
    /\ urlStr = [g \in Callers |-> LocalSpec]
    /\ ctx = [g \in Callers |-> FALSE]
    /\ module = [g \in Callers |-> Nil]
    /\ resp = [g \in Callers |-> NoResp]
    /\ cachePath = [g \in Callers |-> <<>>]
    /\ ret = [g \in Callers |-> NoRet]
    /\ invoked = [g \in Callers |-> <<>>]
    /\ io = [g \in Callers |-> {}]
    /\ prev = [g \in Callers |-> NoPrev]
    /\ failed = {}
    /\ installed = {}
    /\ firstPut = [s \in keys |-> Nil]
    /\ ncalls = 0

Init == InitWith(Specifiers)

\* ---------------------------------------------------------------- helpers
Idle(g) == pc[g] = "idle"
\* callers are interchangeable: the lowest idle one takes the next call
Free(g) == Idle(g) /\ \A h \in Callers : h < g => ~Idle(h)
Running(g) == pc[g] \notin {"idle", "done"}
Quiet == \A g \in Callers : Idle(g)

\* the call of g returns (m, p, e) to its caller
Finish(g, m, p, e) ==
    /\ pc' = [pc EXCEPT ![g] = "done"]
    /\ ret' = [ret EXCEPT ![g] = [module |-> m, path |-> p, err |-> e]]
    /\ failed' = IF op[g] # "load" THEN failed
                 ELSE IF e # NoErr THEN failed \cup {urlStr[g]}
                 ELSE failed \ {urlStr[g]}

Goto(g, l) ==
    /\ pc' = [pc EXCEPT ![g] = l]
    /\ UNCHANGED <<ret, failed>>

Did(g, what) == io' = [io EXCEPT ![g] = @ \cup {what}]

\* os.Stat(p) returns no error
StatMiss(p) == FALSE
Stat(p) == p \in dirs \/ \E f \in files : f[1] = p
ReadFile(p) == IF \E f \in files : f[1] = p
               THEN (CHOOSE f \in files : f[1] = p)[2]
               ELSE NoFile

\* ---------------------------------------------------------------- LoadModule
\* LoadModule, lines 52-57: return the classifier's error, or go and look in
\* the cache
CheckValidationSkipped(g, s, validation) ==
    /\ pc' = [pc EXCEPT ![g] = "getFromCache"]
    /\ ret' = [ret EXCEPT ![g] = NoRet]
    /\ failed' = failed
CheckValidation(g, s, validation) ==
    IF ~validation.IsValid
    THEN /\ pc' = [pc EXCEPT ![g] = "done"]
         /\ ret' = [ret EXCEPT ![g] = [module |-> Nil, path |-> <<>>, err |-> validation.Error]]
         /\ failed' = failed \cup {s}
    ELSE /\ pc' = [pc EXCEPT ![g] = "getFromCache"]
         /\ ret' = [ret EXCEPT ![g] = NoRet]
         /\ failed' = failed

\* LoadModule, lines 49-57: a call starts
LoadModule(g, s) ==
    /\ Free(g)
    /\ ncalls < MaxCalls
    /\ ncalls' = ncalls + 1
    /\ op' = [op EXCEPT ![g] = "load"]
    /\ urlStr' = [urlStr EXCEPT ![g] = s]
    /\ ctx' = [ctx EXCEPT ![g] = FALSE]
    /\ module' = [module EXCEPT ![g] = Nil]
    /\ resp' = [resp EXCEPT ![g] = NoResp]
    /\ cachePath' = [cachePath EXCEPT ![g] = <<>>]
    /\ invoked' = [invoked EXCEPT ![g] = <<>>]
    /\ io' = [io EXCEPT ![g] = {}]
    /\ prev' = [prev EXCEPT ![g] = [module |-> firstPut[s], failed |-> s \in failed,
                                  installed |-> FALSE,
                                  missing |-> s \in DOMAIN fs /\ fs[s] = NoFile]]
    /\ CheckValidation(g, s, ValidateURL(s))
    /\ UNCHANGED <<cache, mu, env, installed, firstPut>>

\* getFromCache, line 92: l.cache.mu.RLock()
GetFromCacheRLock(g) ==
    /\ pc[g] = "getFromCache"
    /\ mu.writer = None
    /\ mu' = [mu EXCEPT !.readers = @ \cup {g}]
    /\ Did(g, "cache")
    /\ Goto(g, "cacheRead")
    /\ UNCHANGED <<cache, env, op, urlStr, ctx, locals, invoked, prev, installed, firstPut, ncalls>>

\* the resolver LoadModule's switch picks for a package type (lines 65-76)
ResolverNPMAsJSR(t) ==
    CASE t = TypeLocal -> "loadLocalModule"
      [] t = TypeCDN -> "loadCDNModule"
      [] t = TypeNPM -> "loadJSRModule"
      [] t = TypeJSR -> "loadJSRModule"
      [] OTHER -> NoResolver
Resolver(t) ==
    CASE t = TypeLocal -> "loadLocalModule"
      [] t = TypeCDN -> "loadCDNModule"
      [] t = TypeNPM -> "loadNPMModule"
      [] t = TypeJSR -> "loadJSRModule"
      [] OTHER -> NoResolver

\* getFromCache, line 94: l.cache.modules[url]
LookupMiss(url) == Nil
Lookup(url) == cache[url]

\* getFromCache, line 93: the deferred l.cache.mu.RUnlock()
RUnlockForgotten(g) == mu
RUnlock(g) == [mu EXCEPT !.readers = @ \ {g}]

\* getFromCache, lines 93-94, and LoadModule, lines 57-76: read the map,
\* RUnlock, return the hit or dispatch on the package type
GetFromCache(g) ==
    /\ pc[g] = "cacheRead"
    /\ mu' = RUnlock(g)
    /\ LET m == Lookup(urlStr[g])
           r == Resolver(ValidateURL(urlStr[g]).PackageType)
       IN IF m # Nil
          THEN /\ Finish(g, m, <<>>, NoErr)
               /\ UNCHANGED invoked
          ELSE IF r = NoResolver
          THEN /\ Finish(g, Nil, <<>>, Sentinel(ErrUnsupportedModule))
               /\ UNCHANGED invoked
          ELSE /\ Goto(g, r)
               /\ invoked' = [invoked EXCEPT ![g] = Append(@, r)]
    /\ UNCHANGED <<cache, env, op, urlStr, ctx, locals, io, prev, installed, firstPut, ncalls>>

\* LoadModule, line 83: l.cache.mu.Lock()
CacheLockNoWait(g) ==
    /\ pc[g] = "cacheLock"
    /\ mu' = [mu EXCEPT !.writer = g]
    /\ Goto(g, "cacheWrite")
    /\ UNCHANGED <<cache, env, op, urlStr, ctx, locals, invoked, io, prev, installed, firstPut, ncalls>>
CacheLock(g) ==
    /\ pc[g] = "cacheLock"
    /\ mu.writer = None
    /\ mu.readers = {}
    /\ mu' = [mu EXCEPT !.writer = g]
    /\ Goto(g, "cacheWrite")
    /\ UNCHANGED <<cache, env, op, urlStr, ctx, locals, invoked, io, prev, installed, firstPut, ncalls>>

\* LoadModule, lines 84-87: l.cache.modules[urlStr] = module, Unlock and
\* return the module
CacheWriteFresh(g) ==
    /\ pc[g] = "cacheWrite"
    /\ cache' = [s \in DOMAIN cache |-> IF s = urlStr[g] THEN module[g] ELSE Nil]
    /\ mu' = [mu EXCEPT !.writer = None]
    /\ firstPut' = IF firstPut[urlStr[g]] = Nil
                   THEN [firstPut EXCEPT ![urlStr[g]] = module[g]]
                   ELSE firstPut
    /\ Finish(g, module[g], <<>>, NoErr)
    /\ UNCHANGED <<env, op, urlStr, ctx, locals, invoked, io, prev, installed, ncalls>>
CacheWrite(g) ==
    /\ pc[g] = "cacheWrite"
    /\ cache' = [cache EXCEPT ![urlStr[g]] = module[g]]
    /\ mu' = [mu EXCEPT !.writer = None]
    /\ firstPut' = IF firstPut[urlStr[g]] = Nil
                   THEN [firstPut EXCEPT ![urlStr[g]] = module[g]]
                   ELSE firstPut
    /\ Finish(g, module[g], <<>>, NoErr)
    /\ UNCHANGED <<env, op, urlStr, ctx, locals, invoked, io, prev, installed, ncalls>>

\* the caller has its result; the call's frame is gone
Return(g) ==
    /\ pc[g] = "done"
    /\ pc' = [pc EXCEPT ![g] = "idle"]
    /\ op' = [op EXCEPT ![g] = "load"]
    /\ urlStr' = [urlStr EXCEPT ![g] = LocalSpec]
    /\ ctx' = [ctx EXCEPT ![g] = FALSE]
    /\ module' = [module EXCEPT ![g] = Nil]
    /\ resp' = [resp EXCEPT ![g] = NoResp]
    /\ cachePath' = [cachePath EXCEPT ![g] = <<>>]
    /\ ret' = [ret EXCEPT ![g] = NoRet]
    /\ invoked' = [invoked EXCEPT ![g] = <<>>]
    /\ io' = [io EXCEPT ![g] = {}]
    /\ prev' = [prev EXCEPT ![g] = NoPrev]
    /\ UNCHANGED <<cache, mu, env, failed, installed, firstPut, ncalls>>

\* a resolver returned (module, nil): LoadModule goes on to cache it (line 82)
Resolved(g, m) ==
    /\ module' = [module EXCEPT ![g] = m]
    /\ cache' = cache
    /\ Goto(g, "cacheLock")

\* a resolver returned (nil, err): LoadModule returns it (lines 78-80)
FailedCaches(g, e) ==
    /\ module' = module
    /\ cache' = [cache EXCEPT ![urlStr[g]] = MkModule(urlStr[g], "", ValidateURL(urlStr[g]).PackageType)]
    /\ Finish(g, Nil, <<>>, e)
Failed(g, e) ==
    /\ module' = module
    /\ cache' = cache
    /\ Finish(g, Nil, <<>>, e)

\* ---------------------------------------------------------------- resolvers
\* loadLocalModule, lines 99-113: what it returns, given whether
\* filepath.Abs worked and what os.ReadFile found
LocalOutcomeEmpty(path, absOk, content) ==
    IF ~absOk THEN [module |-> Nil, err |-> Wrap(ErrModuleNotFound, "getwd")]
    ELSE [module |-> MkModule(path, IF content = NoFile THEN "" ELSE content, TypeLocal),
          err |-> NoErr]
LocalOutcome(path, absOk, content) ==
    IF ~absOk THEN [module |-> Nil, err |-> Wrap(ErrModuleNotFound, "getwd")]
    ELSE IF content = NoFile THEN [module |-> Nil, err |-> Wrap(ErrFileRead, NoFile)]
    ELSE [module |-> MkModule(path, content, TypeLocal), err |-> NoErr]

\* loadLocalModule, lines 98-114
LoadLocalModule(g) ==
    /\ pc[g] = "loadLocalModule"
    /\ Did(g, "read")
    /\ \E absOk \in BOOLEAN :
         LET out == LocalOutcome(urlStr[g], absOk, fs[urlStr[g]]) IN
         IF out.err # NoErr
         THEN Failed(g, out.err)
         ELSE Resolved(g, out.module)
    /\ UNCHANGED <<mu, env, op, urlStr, ctx, resp, cachePath, invoked, prev, installed, firstPut, ncalls>>

\* loadJSRModule, lines 173-176
LoadJSRModuleLoads(g) ==
    /\ pc[g] = "loadJSRModule"
    /\ Resolved(g, MkModule(urlStr[g], "", TypeJSR))
    /\ UNCHANGED <<mu, env, op, urlStr, ctx, resp, cachePath, invoked, io, prev, installed, firstPut, ncalls>>
LoadJSRModule(g) ==
    /\ pc[g] = "loadJSRModule"
    /\ Failed(g, Sentinel(ErrJSRNotImplemented))
    /\ UNCHANGED <<mu, env, op, urlStr, ctx, resp, cachePath, invoked, io, prev, installed, firstPut, ncalls>>

\* loadCDNModule, lines 118-127: build the request and send it; Do fails on
\* a cancelled context, on a transport failure and, when the server stays
\* silent, once the client's timeout has passed
LoadCDNModule(g) ==
    /\ pc[g] = "loadCDNModule"
    /\ Did(g, "http")
    /\ \/ /\ ctx[g] \/ server = "up" \/ HasTimeout(ClientTimeout)
          /\ resp' = resp
          /\ Failed(g, Wrap(ErrModuleNotFound,
                            IF ctx[g] THEN "context canceled"
                            ELSE IF server = "up" THEN "transport" ELSE "timeout"))
       \/ /\ ~ctx[g]
          /\ server = "up"
          /\ \E st \in Statuses, body \in Bodies :
               resp' = [resp EXCEPT ![g] = [status |-> st, body |-> body]]
          /\ module' = module
          /\ cache' = cache
          /\ Goto(g, "cdnReadAll")
    /\ UNCHANGED <<mu, env, op, urlStr, ctx, cachePath, invoked, prev, installed, firstPut, ncalls>>

\* loadCDNModule, lines 129-139: read the body, whatever the status was
CDNReadAll(g) ==
    /\ pc[g] = "cdnReadAll"
    /\ \/ Failed(g, Wrap(ErrFileRead, "read"))
       \/ Resolved(g, MkModule(urlStr[g], resp[g].body, TypeCDN))
    /\ UNCHANGED <<mu, env, op, urlStr, ctx, resp, cachePath, invoked, io, prev, installed, firstPut, ncalls>>

\* ---------------------------------------------------------------- npm
\* what the caller of InstallPackage makes of its error:
\* loadNPMModule wraps it (line 155), handleInstall formats it (init.go line 91)
CallerErr(g, e) ==
    IF op[g] = "load" THEN Wrap(ErrPackageInstall, ErrorText(e))
    ELSE Wrap("handleInstall", ErrorText(e))

\* InstallPackage returned ("", e)
InstallFailed(g, e) ==
    /\ module' = module
    /\ installed' = installed
    /\ Finish(g, Nil, <<>>, CallerErr(g, e))

\* InstallPackage returned (cachePath, nil): loadNPMModule goes on to read
\* the entry file, handleInstall reports the path
InstallReturned(g, path, nv) ==
    /\ module' = module
    /\ installed' = installed \cup {<<nv[1], nv[2], path>>}
    /\ IF op[g] = "load"
       THEN Goto(g, "npmReadFile")
       ELSE Finish(g, Nil, path, NoErr)

\* handleInstall, init.go lines 77-97, for one package argument
HandleInstall(g, pkg) ==
    /\ Free(g)
    /\ ncalls < MaxCalls
    /\ ncalls' = ncalls + 1
    /\ op' = [op EXCEPT ![g] = "install"]
    /\ urlStr' = [urlStr EXCEPT ![g] = pkg]
    /\ ctx' = [ctx EXCEPT ![g] = FALSE]
    /\ module' = [module EXCEPT ![g] = Nil]
    /\ resp' = [resp EXCEPT ![g] = NoResp]
    /\ cachePath' = [cachePath EXCEPT ![g] = <<>>]
    /\ invoked' = [invoked EXCEPT ![g] = <<>>]
    /\ io' = [io EXCEPT ![g] = {}]
    /\ prev' = [prev EXCEPT ![g] = NoPrev]
    /\ pc' = [pc EXCEPT ![g] = "loadNPMModule"]
    /\ ret' = [ret EXCEPT ![g] = NoRet]
    /\ UNCHANGED <<cache, mu, env, failed, installed, firstPut>>

\* NewNPMPackageManager, npm.go lines 20-34, called at part_000 line 147 and
\* init.go line 82
NewNPMPackageManager(g) ==
    /\ pc[g] = "loadNPMModule"
    /\ Did(g, "mkdir")
    /\ \/ /\ dirs' = dirs
          /\ InstallFailed(g, Wrap(ErrCacheDir, "home"))
       \/ /\ dirs' = dirs \cup {<<CacheDir>>}
          /\ module' = module
          /\ installed' = installed
          /\ Goto(g, "InstallPackage")
    /\ UNCHANGED <<cache, mu, fs, server, files, op, urlStr, ctx, resp, cachePath, invoked, prev, firstPut, ncalls>>

\* the package name InstallPackage is given: loadNPMModule strips "npm:"
\* (line 144), handleInstall passes its argument
PackageName(g) == IF op[g] = "load" THEN TrimPrefix(urlStr[g], "npm:") ELSE urlStr[g]

\* InstallPackage, npm.go lines 39-44
ParseName(packageName) == Split(packageName, "@")[1]
ParseVersionLatest(packageName) == <<"latest">>
ParseVersion(packageName) ==
    LET parts == Split(packageName, "@")
    IN IF Len(parts) > 1 THEN parts[2] ELSE <<"latest">>

\* InstallPackage, npm.go line 47
CachePathOf(packageName) == Join(<<CacheDir, ParseName(packageName), ParseVersion(packageName)>>)

NameVersion(g) == <<ParseName(PackageName(g)), ParseVersion(PackageName(g))>>

\* InstallPackage, npm.go lines 39-50: parse, and return the cached directory
\* when it is there
InstallPackage(g) ==
    /\ pc[g] = "InstallPackage"
    /\ Did(g, "stat")
    /\ prev' = [prev EXCEPT ![g].installed = \E t \in installed : <<t[1], t[2]>> = NameVersion(g)]
    /\ LET path == CachePathOf(PackageName(g)) IN
       /\ cachePath' = [cachePath EXCEPT ![g] = path]
       /\ IF Stat(path)
          THEN InstallReturned(g, path, NameVersion(g))
          ELSE /\ module' = module
               /\ installed' = installed
               /\ Goto(g, "ipGet")
    /\ UNCHANGED <<cache, mu, env, op, urlStr, ctx, resp, invoked, firstPut, ncalls>>

\* InstallPackage, npm.go lines 53-62: http.Get of the registry, which takes
\* neither the context nor a timeout: it returns only if the server acts
InstallGet(g) ==
    /\ pc[g] = "ipGet"
    /\ server = "up"
    /\ Did(g, "http")
    /\ \/ /\ resp' = resp
          /\ InstallFailed(g, Wrap(ErrPackageFetch, "transport"))
       \/ \E st \in Statuses :
            /\ resp' = [resp EXCEPT ![g] = [status |-> st, body |-> ""]]
            /\ IF st # StatusOK
               THEN InstallFailed(g, Sentinel(ErrPackageNotFound))
               ELSE /\ module' = module
                    /\ installed' = installed
                    /\ Goto(g, "ipMkdir")
    /\ UNCHANGED <<cache, mu, env, op, urlStr, ctx, cachePath, invoked, prev, firstPut, ncalls>>

\* InstallPackage, npm.go lines 65-67: os.MkdirAll(cachePath)
InstallMkdir(g) ==
    /\ pc[g] = "ipMkdir"
    /\ Did(g, "mkdir")
    /\ \/ /\ dirs' = dirs
          /\ InstallFailed(g, Wrap(ErrCacheDir, "mkdir"))
       \/ /\ dirs' = dirs \cup Ancestors(cachePath[g])
          /\ module' = module
          /\ installed' = installed
          /\ Goto(g, "ipWrite")
    /\ UNCHANGED <<cache, mu, fs, server, files, op, urlStr, ctx, resp, cachePath, invoked, prev, firstPut, ncalls>>

\* os.WriteFile(p, data): p holds data afterwards
WriteFile(p, data) == {f \in files : f[1] # p} \cup {<<p, data>>}

\* InstallPackage, npm.go lines 72-77: write the placeholder entry file
InstallWrite(g) ==
    /\ pc[g] = "ipWrite"
    /\ Did(g, "write")
    /\ LET placeholder == cachePath[g] \o <<IndexJS>> IN
       \/ /\ files' = files
          /\ InstallFailed(g, Wrap(ErrPackageInstall, "write"))
       \/ /\ files' = WriteFile(placeholder, Placeholder)
          /\ InstallReturned(g, cachePath[g], NameVersion(g))
    /\ UNCHANGED <<cache, mu, fs, server, dirs, op, urlStr, ctx, resp, cachePath, invoked, prev, firstPut, ncalls>>

\* loadNPMModule, lines 165-169: the Module it returns
NPMModuleOfPackage(url, content) == MkModule(TrimPrefix(url, "npm:"), content, TypeNPM)
NPMModule(url, content) == MkModule(url, content, TypeNPM)

\* loadNPMModule, lines 159-169: read index.js of the returned directory
NPMReadFile(g) ==
    /\ pc[g] = "npmReadFile"
    /\ Did(g, "read")
    /\ LET mainFile == cachePath[g] \o <<IndexJS>>
           content == ReadFile(mainFile)
       IN IF content = NoFile
          THEN Failed(g, Wrap(ErrFileRead, NoFile))
          ELSE Resolved(g, NPMModule(urlStr[g], content))
    /\ UNCHANGED <<mu, env, op, urlStr, ctx, resp, cachePath, invoked, prev, installed, firstPut, ncalls>>

\* ---------------------------------------------------------------- environment
\* the local file is written, replaced or removed by someone else
FileChange(c) ==
    /\ c # fs[LocalSpec]
    /\ fs' = [fs EXCEPT ![LocalSpec] = c]
    /\ prev' = [g \in Callers |-> [prev[g] EXCEPT !.missing = FALSE]]
    /\ UNCHANGED <<cache, mu, dirs, files, server, pc, op, urlStr, ctx, locals, ret, invoked, io,
                   failed, installed, firstPut, ncalls>>

\* the caller cancels the context it gave to LoadModule
Cancel(g) ==
    /\ Running(g)
    /\ op[g] = "load"
    /\ ~ctx[g]
    /\ ctx' = [ctx EXCEPT ![g] = TRUE]
    /\ UNCHANGED <<cache, mu, env, pc, op, urlStr, locals, ret, invoked, io, hist>>

\* ---------------------------------------------------------------- specifications
Step(g) ==
    \/ GetFromCacheRLock(g)
    \/ GetFromCache(g)
    \/ CacheLock(g)
    \/ CacheWrite(g)
    \/ Return(g)
    \/ LoadLocalModule(g)
    \/ LoadCDNModule(g)
    \/ CDNReadAll(g)
    \/ LoadJSRModule(g)
    \/ NewNPMPackageManager(g)
    \/ InstallPackage(g)
    \/ InstallGet(g)
    \/ InstallMkdir(g)
    \/ InstallWrite(g)
    \/ NPMReadFile(g)
    \/ Cancel(g)

\* any number of callers at once
Next ==
    \/ \E g \in Callers, s \in Specifiers : LoadModule(g, s)
    \/ \E g \in Callers, pkg \in PackageArgs : HandleInstall(g, pkg)
    \/ \E g \in Callers : Step(g)
    \/ \E c \in FileContents \cup {NoFile} : FileChange(c)

Spec == Init /\ [][Next]_vars

\* one call after the other: a call starts, and the files change, only while
\* no call is running
NextSeq ==
    \/ \E g \in Callers, s \in Specifiers : Quiet /\ LoadModule(g, s)
    \/ \E g \in Callers, pkg \in PackageArgs : Quiet /\ HandleInstall(g, pkg)
    \/ \E g \in Callers : Step(g)
    \/ \E c \in FileContents \cup {NoFile} : Quiet /\ FileChange(c)

SpecSeq == Init /\ [][NextSeq]_vars

\* npm specifiers and package arguments of every shape, one call after the
\* other: loadNPMModule and handleInstall hand them to InstallPackage
StepParse(g) ==
    \/ GetFromCacheRLock(g)
    \/ GetFromCache(g)
    \/ CacheLock(g)
    \/ CacheWrite(g)
    \/ Return(g)
    \/ NewNPMPackageManager(g)
    \/ InstallPackage(g)
    \/ InstallGet(g)
    \/ InstallMkdir(g)
    \/ InstallWrite(g)
    \/ NPMReadFile(g)

NextParse ==
    \/ \E g \in Callers, s \in ParseSpecs : Quiet /\ LoadModule(g, s)
    \/ \E g \in Callers, pkg \in ParseArgs : Quiet /\ HandleInstall(g, pkg)
    \/ \E g \in Callers : StepParse(g)

SpecParse == InitWith(ParseSpecs) /\ [][NextParse]_vars

\* loads of the CDN url and of the local file by callers that keep running.
\* A goroutine that can take its step takes it: a cache access or a call that
\* returns (Do and ReadAll within the client's timeout) under weak fairness,
\* the acquisitions of the RWMutex, which lets no waiter starve, under strong
\* fairness. Nothing obliges a caller to cancel, to call or to drop its result.
LiveSpecs == {LocalSpec, CDNSpec}

StepLive(g) ==
    \/ GetFromCacheRLock(g)
    \/ GetFromCache(g)
    \/ CacheLock(g)
    \/ CacheWrite(g)
    \/ Return(g)
    \/ LoadLocalModule(g)
    \/ LoadCDNModule(g)
    \/ CDNReadAll(g)
    \/ Cancel(g)

NextLive ==
    \/ \E g \in Callers, s \in LiveSpecs : LoadModule(g, s)
    \/ \E g \in Callers : StepLive(g)

Fairness ==
    \A g \in Callers :
        /\ SF_vars(GetFromCacheRLock(g))
        /\ WF_vars(GetFromCache(g))
        /\ WF_vars(LoadLocalModule(g))
        /\ WF_vars(LoadCDNModule(g))
        /\ WF_vars(CDNReadAll(g))
        /\ SF_vars(CacheLock(g))
        /\ WF_vars(CacheWrite(g))

SpecLive == InitWith(LiveSpecs) /\ [][NextLive]_vars /\ Fairness

\* ---------------------------------------------------------------- properties
TypeOf(s) == ValidateURL(s).PackageType
IsValid(s) == ValidateURL(s).IsValid
LoadDone(g) == pc[g] = "done" /\ op[g] = "load"
\* the step in which the call of g returns
Returns(g) == pc[g] # "done" /\ pc'[g] = "done"

\* C1: called one after the other, a LoadModule(S) that follows a successful
\* LoadModule(S) succeeds with the Module the first one cached and returned,
\* invokes no resolver and does no I/O beyond the cache lookup.
C1_CacheHit ==
    \A g \in Callers :
        (LoadDone(g) /\ prev[g].module # Nil) =>
            /\ ret[g].err = NoErr
            /\ ret[g].module = prev[g].module
            /\ invoked[g] = <<>>
            /\ io[g] = {"cache"}

\* a second load of the local file has returned the cached content although
\* the file is gone
C1_Witness ==
    \E g \in Callers :
        /\ LoadDone(g)
        /\ urlStr[g] = LocalSpec
        /\ prev[g].module # Nil
        /\ ret[g].module = prev[g].module
        /\ fs[LocalSpec] = NoFile

\* the places of a LoadModule call between its cache miss and its return
Missed == {"loadLocalModule", "loadCDNModule", "cdnReadAll", "loadJSRModule",
           "loadNPMModule", "InstallPackage", "ipGet", "ipMkdir", "ipWrite",
           "npmReadFile", "cacheLock", "cacheWrite"}

\* C2: single-flight; of the LoadModule calls running for one specifier, at
\* most one is past its cache miss (resolving or storing), the others wait for
\* its result.
C2_SingleFlight ==
    \A g, h \in Callers :
        (g # h /\ op[g] = "load" /\ op[h] = "load" /\ urlStr[g] = urlStr[h])
            => ~(pc[g] \in Missed /\ pc[h] \in Missed)

\* the step in which the resolver of g's LoadModule fails
ResolverFails(g) ==
    /\ op[g] = "load"
    /\ invoked[g] # <<>>
    /\ Returns(g)
    /\ ret'[g].err # NoErr

\* C3: a failing resolver leaves the cache as it was, with no entry for the
\* specifier, the caller gets the error and no Module, and the next
\* LoadModule of that specifier invokes the resolver again.
C3_FailureNotCached ==
    /\ [][\A g \in Callers :
            ResolverFails(g) =>
                /\ cache' = cache
                /\ cache'[urlStr[g]] = Nil
                /\ ret'[g].module = Nil]_vars
    /\ [](\A g \in Callers :
            (LoadDone(g) /\ IsValid(urlStr[g]) /\ prev[g].failed) =>
                invoked[g] = <<Resolver(TypeOf(urlStr[g]))>>)

\* a load of the local file that failed before has invoked the resolver again,
\* this time with success
C3_Witness ==
    \E g \in Callers :
        /\ LoadDone(g)
        /\ urlStr[g] = LocalSpec
        /\ prev[g].failed
        /\ invoked[g] = <<"loadLocalModule">>
        /\ ret[g].err = NoErr

\* C4: a CDN load whose server answered with a non-2xx status fails with
\* ModuleNotFound, and no Module is built from the body of that answer.
C4_CDNStatusChecked ==
    \A g \in Callers :
        (op[g] = "load" /\ TypeOf(urlStr[g]) = TypeCDN
            /\ resp[g] # NoResp /\ resp[g].status \notin 200..299) =>
            /\ module[g] = Nil
            /\ pc[g] = "done" => (ret[g].module = Nil /\ ret[g].err.kind = ErrModuleNotFound)

\* C5: a LoadModule whose context has been cancelled while it was running
\* inserts nothing into the cache.
C5_CancelledNotCached ==
    [][\A g \in Callers : ~(ctx[g] /\ pc[g] = "cacheWrite" /\ pc'[g] = "done")]_vars

\* C6: a valid jsr: specifier never has a cache entry, and every LoadModule
\* of it returns JSRNotImplemented and no Module.
C6_JSRNotImplemented ==
    /\ \A s \in Specifiers : (IsValid(s) /\ TypeOf(s) = TypeJSR) => cache[s] = Nil
    /\ \A g \in Callers :
         (LoadDone(g) /\ IsValid(urlStr[g]) /\ TypeOf(urlStr[g]) = TypeJSR) =>
             /\ ret[g].module = Nil
             /\ ret[g].err = Sentinel(ErrJSRNotImplemented)

\* a load of the jsr: specifier has returned, after another load had put
\* something in the cache
C6_Witness ==
    \E g \in Callers :
        /\ LoadDone(g)
        /\ urlStr[g] = JSRSpec
        /\ invoked[g] = <<"loadJSRModule">>
        /\ \E s \in Specifiers : cache[s] # Nil

\* C7: once InstallPackage has returned a path for a name and version, an
\* InstallPackage of the same name and version returns that path from its
\* cache check: no registry request, no directory made, no file written.
C7_ReinstallIsHit ==
    [][\A g \in Callers : \A t \in installed :
         (pc[g] = "InstallPackage" /\ pc'[g] # "InstallPackage"
             /\ <<t[1], t[2]>> = NameVersion(g)) =>
             /\ cachePath'[g] = t[3]
             /\ pc'[g] = IF op[g] = "load" THEN "npmReadFile" ELSE "done"
             /\ op[g] = "install" => (ret'[g].path = t[3] /\ ret'[g].err = NoErr)
             /\ "http" \notin io'[g] /\ "write" \notin io'[g]
             /\ dirs' = dirs /\ files' = files]_vars

\* the install command has got the path of a package that was installed
\* before, without a request
C7_Witness ==
    \E g \in Callers :
        /\ pc[g] = "done"
        /\ op[g] = "install"
        /\ prev[g].installed
        /\ ret[g].path = CachePathOf(urlStr[g])
        /\ "http" \notin io[g]

\* C8, as claimed: a LoadModule of a local specifier whose file has not
\* existed at any time during the call returns ModuleNotFound or
\* FileReadFailure, no Module, and leaves the cache as it was.
C8_MissingLocalFails ==
    [][\A g \in Callers :
         (op'[g] = "load" /\ TypeOf(urlStr'[g]) = TypeLocal /\ Returns(g)
             /\ prev'[g].missing) =>
             /\ ret'[g].module = Nil
             /\ ret'[g].err.kind \in {ErrModuleNotFound, ErrFileRead}
             /\ cache' = cache]_vars

\* C8, amended: the same, for a call whose cache lookup has missed.
C8_MissingLocalFailsOnMiss ==
    [][\A g \in Callers :
         (op'[g] = "load" /\ TypeOf(urlStr'[g]) = TypeLocal /\ Returns(g)
             /\ prev'[g].missing /\ invoked'[g] # <<>>) =>
             /\ ret'[g].module = Nil
             /\ ret'[g].err.kind \in {ErrModuleNotFound, ErrFileRead}
             /\ cache' = cache]_vars

\* a load of the missing local file has read the disk and failed
C8_Witness ==
    \E g \in Callers :
        /\ LoadDone(g)
        /\ urlStr[g] = LocalSpec
        /\ prev[g].missing
        /\ invoked[g] = <<"loadLocalModule">>
        /\ "read" \in io[g]
        /\ ret[g].err = Wrap(ErrFileRead, NoFile)

\* C9: a LoadModule of a specifier the classifier rejects returns the
\* classifier's error and no Module, having looked in no cache, invoked no
\* resolver and done no I/O; the step leaves cache and mutex as they were.
C9_InvalidFailsFirst ==
    /\ [](\A g \in Callers :
            (LoadDone(g) /\ ~IsValid(urlStr[g])) =>
                /\ ret[g].err = ValidateURL(urlStr[g]).Error
                /\ ret[g].err.kind = ErrInvalidURL
                /\ ret[g].module = Nil
                /\ invoked[g] = <<>>
                /\ io[g] = {})
    /\ [][\A g \in Callers :
            (op'[g] = "load" /\ ~IsValid(urlStr'[g]) /\ Returns(g)) =>
                (cache' = cache /\ mu' = mu)]_vars

\* a load of the invalid specifier has returned while the cache held a Module
C9_Witness ==
    \E g \in Callers :
        /\ LoadDone(g)
        /\ urlStr[g] = BadSpec
        /\ ret[g].err.kind = ErrInvalidURL
        /\ \E s \in Specifiers : cache[s] # Nil

\* C10: once an insertion for S has completed, a getFromCache(S) that starts
\* afterwards returns the Module that was inserted.
C10_PutVisible ==
    [][\A g \in Callers :
         (pc[g] = "cacheRead" /\ pc'[g] # "cacheRead" /\ firstPut[urlStr[g]] # Nil) =>
             (pc'[g] = "done" /\ ret'[g].module = firstPut[urlStr[g]])]_vars

\* C11: error kinds reach the caller of LoadModule unmodified; a load of an
\* npm: specifier whose registry request was answered with a status other
\* than 200 returns PackageNotFound, the kind InstallPackage gave it.
C11_KindUnmodified ==
    \A g \in Callers :
        (LoadDone(g) /\ TypeOf(urlStr[g]) = TypeNPM
            /\ resp[g] # NoResp /\ resp[g].status # StatusOK) =>
            /\ ret[g].module = Nil
            /\ ret[g].err.kind = ErrPackageNotFound

\* the call of g has been through InstallPackage's parsing
Parsed(g) == cachePath[g] # <<>>
HasAt(str) == \E i \in 1..Len(str) : str[i] = "@"

\* what the claim says of a package name written as name@version, and of one
\* without "@"
ParsedAs(g, name, version) ==
    /\ NameVersion(g) = <<name, version>>
    /\ cachePath[g] = <<CacheDir, name, version>>

\* C12, as claimed: for every name and version, InstallPackage of name@version
\* (from the install command or from a load of npm:name@version) takes name
\* as the name and version as the version; without "@" the version is latest;
\* the cache directory is cacheRoot/name/version.
C12_ParseAny ==
    \A g \in Callers : Parsed(g) =>
        /\ \A n \in ParseNames, v \in ParseVersions :
               PackageName(g) = Compose(n, v) => ParsedAs(g, n, v)
        /\ ~HasAt(PackageName(g)) => ParsedAs(g, PackageName(g), <<"latest">>)

\* C12, amended: the same for names and versions that hold no "@".
C12_ParsePlain ==
    \A g \in Callers : Parsed(g) =>
        /\ \A n \in ParseNames, v \in ParseVersions :
               (~HasAt(n) /\ ~HasAt(v) /\ PackageName(g) = Compose(n, v)) => ParsedAs(g, n, v)
        /\ ~HasAt(PackageName(g)) => ParsedAs(g, PackageName(g), <<"latest">>)

\* a load of npm:a@1 has installed into cacheRoot/a/1 and returned
C12_Witness ==
    \E g \in Callers :
        /\ LoadDone(g)
        /\ urlStr[g] = <<"npm:", "a", "@", "1">>
        /\ ret[g].err = NoErr
        /\ cachePath[g] = <<CacheDir, <<"a">>, <<"1">>>>
        /\ <<cachePath[g] \o <<IndexJS>>, Placeholder>> \in files

\* C13: a CDN load does not hang, even if the server never responds: every
\* LoadModule of a CDN specifier that has started eventually returns.
C13_CDNReturns ==
    \A g \in Callers :
        (Running(g) /\ op[g] = "load" /\ TypeOf(urlStr[g]) = TypeCDN) ~> (pc[g] = "done")

\* a load from the silent server has returned the timeout's error, its
\* context not cancelled
C13_Witness ==
    \E g \in Callers :
        /\ LoadDone(g)
        /\ urlStr[g] = CDNSpec
        /\ server = "silent"
        /\ ~ctx[g]
        /\ ret[g].module = Nil
        /\ ret[g].err = Wrap(ErrModuleNotFound, "timeout")

\* the resolver that matches a scheme, and the places of a call inside it
Matching(t) ==
    CASE t = TypeLocal -> "loadLocalModule"
      [] t = TypeCDN -> "loadCDNModule"
      [] t = TypeNPM -> "loadNPMModule"
      [] t = TypeJSR -> "loadJSRModule"
PlacesOf(r) ==
    CASE r = "loadLocalModule" -> {"loadLocalModule"}
      [] r = "loadCDNModule" -> {"loadCDNModule", "cdnReadAll"}
      [] r = "loadNPMModule" -> {"loadNPMModule", "InstallPackage", "ipGet", "ipMkdir",
                                 "ipWrite", "npmReadFile"}
      [] r = "loadJSRModule" -> {"loadJSRModule"}
Schemes == {TypeLocal, TypeCDN, TypeNPM, TypeJSR}

\* C14: the step of LoadModule that finds no cache entry invokes the resolver
\* matching the specifier's scheme, or for a scheme outside the four returns
\* UnsupportedModuleKind with no resolver invoked and the cache unchanged; a
\* call invokes at most one resolver, once, and runs only inside that one; the
\* switch has no resolver for any other scheme value.
C14_DispatchOnce ==
    /\ [][\A g \in Callers :
            (pc[g] = "cacheRead" /\ pc'[g] # "cacheRead" /\ cache[urlStr[g]] = Nil) =>
                IF TypeOf(urlStr[g]) \in Schemes
                THEN /\ invoked'[g] = <<Matching(TypeOf(urlStr[g]))>>
                     /\ pc'[g] = Matching(TypeOf(urlStr[g]))
                     /\ cache' = cache
                ELSE /\ invoked'[g] = <<>>
                     /\ pc'[g] = "done"
                     /\ ret'[g].module = Nil
                     /\ ret'[g].err = Sentinel(ErrUnsupportedModule)
                     /\ cache' = cache]_vars
    /\ [](\A g \in Callers :
            op[g] = "load" =>
                /\ Len(invoked[g]) <= 1
                /\ pc[g] \in Missed => invoked[g] = <<Matching(TypeOf(urlStr[g]))>>
                /\ pc[g] \in Missed \ {"cacheLock", "cacheWrite"} =>
                       pc[g] \in PlacesOf(invoked[g][1]))
    /\ Resolver(TypeUnknown) = NoResolver

\* a load of the npm specifier has missed, gone through loadNPMModule alone
\* and returned the Module
C14_Witness ==
    \E g \in Callers :
        /\ LoadDone(g)
        /\ urlStr[g] = NPMSpec
        /\ prev[g].module = Nil
        /\ invoked[g] = <<"loadNPMModule">>
        /\ "write" \in io[g]
        /\ ret[g].module # Nil

\* the callers at the map write (line 84) and at the map read (line 94)
Writing == {g \in Callers : pc[g] = "cacheWrite"}
Reading == {g \in Callers : pc[g] = "cacheRead"}

\* C15: at most one caller is writing the modules map, and none reads it while
\* one writes; every access is made with the lock held, write lock and read
\* locks never held together; a lookup that hits returns a whole Module.
C15_RWExclusion ==
    /\ Cardinality(Writing) <= 1
    /\ Writing # {} => Reading = {}
    /\ mu.writer # None => mu.readers = {}
    /\ \A g \in Writing : mu.writer = g
    /\ \A g \in Reading : g \in mu.readers
    /\ \A g \in Callers :
           (LoadDone(g) /\ invoked[g] = <<>> /\ ret[g].err = NoErr) =>
               /\ ret[g].module.URL = urlStr[g]
               /\ ret[g].module.Type \in Schemes

\* one caller holds the write lock at the map write while another waits to
\* read the same specifier, and a third party's entry is in the map
C15_Witness ==
    \E g, h \in Callers :
        /\ pc[g] = "cacheWrite"
        /\ mu.writer = g
        /\ pc[h] = "getFromCache"
        /\ urlStr[h] = urlStr[g]
        /\ \E s \in Specifiers : cache[s] # Nil

\* C16: the cache only grows; a specifier that has an entry has one in every
\* later state, whatever calls succeed or fail afterwards.
C16_CacheOnlyGrows ==
    [][\A s \in DOMAIN cache : cache[s] # Nil => cache'[s] # Nil]_vars

\* a load that missed has failed after another load had cached the specifier,
\* the entry is still there, next to the entry of another specifier
C16_Witness ==
    \E g \in Callers :
        /\ LoadDone(g)
        /\ invoked[g] # <<>>
        /\ ret[g].err # NoErr
        /\ cache[urlStr[g]] # Nil
        /\ \E s \in Specifiers : s # urlStr[g] /\ cache[s] # Nil

\* C17: a Module is inserted once per specifier; no insertion is made for a
\* specifier that has an entry, so that an entry is never replaced, and every
\* successful LoadModule of the specifier returns the Module inserted first.
C17_InsertedOnce ==
    /\ [][\A g \in Callers :
            (pc[g] = "cacheWrite" /\ pc'[g] = "done") =>
                /\ cache[urlStr[g]] = Nil
                /\ \A s \in DOMAIN cache : cache[s] # Nil => cache'[s] = cache[s]]_vars
    /\ [](\A g \in Callers :
            (LoadDone(g) /\ ret[g].err = NoErr) => ret[g].module = firstPut[urlStr[g]])

\* the places of a call inside a resolver, and at the map under the lock
InResolver == Missed \ {"cacheLock", "cacheWrite"}
AtMap(g) == pc[g] \in {"cacheRead", "cacheWrite"}

\* C18: a caller inside a resolver holds the cache lock neither for reading
\* nor for writing; the lock is held only by a caller at the map read or the
\* map write, so that a LoadModule waiting for the lock waits only for such a
\* caller, never for one that is resolving.
C18_NoLockWhileResolving ==
    /\ \A g \in Callers : pc[g] \in InResolver => (g \notin mu.readers /\ mu.writer # g)
    /\ \A g \in mu.readers : pc[g] = "cacheRead"
    /\ mu.writer # None => pc[mu.writer] = "cacheWrite"
    /\ \A h \in Callers :
           (\A g \in Callers \ {h} : ~AtMap(g)) =>
               /\ pc[h] = "getFromCache" => mu.writer = None
               /\ pc[h] = "cacheLock" => (mu.writer = None /\ mu.readers = {})

\* while the first caller's load waits for the silent CDN server, the second
\* caller's load of the local file, started later, has missed, read the file,
\* cached the Module and returned
C18_Witness ==
    /\ NumCallers >= 2
    /\ ncalls = 2
    /\ server = "silent"
    /\ pc[1] = "loadCDNModule"
    /\ urlStr[1] = CDNSpec
    /\ LoadDone(2)
    /\ urlStr[2] = LocalSpec
    /\ invoked[2] = <<"loadLocalModule">>
    /\ ret[2].err = NoErr
    /\ cache[LocalSpec] = ret[2].module

\* the package directories cacheRoot/name/version, and whether one holds its
\* entry file
PackageDirs == {p \in dirs : Len(p) = 3 /\ p[1] = CacheDir}
HasEntryFile(p) == \E f \in files : f[1] = p \o <<IndexJS>>
\* an install is between its MkdirAll and its WriteFile of p
Installing(p) == \E g \in Callers : pc[g] = "ipWrite" /\ cachePath[g] = p

\* C19: a package directory that exists, and is not just being installed,
\* holds index.js, also after an install has failed; and every directory a
\* successful InstallPackage has returned holds index.js.
C19_PackageCacheComplete ==
    /\ \A p \in PackageDirs : ~Installing(p) => HasEntryFile(p)
    /\ \A t \in installed : Installing(t[3]) \/ HasEntryFile(t[3])

\* C20: every cache entry holds a Module whose URL is the entry's key, the
\* specifier as the caller gave it, and whose Type is the scheme that key
\* classifies as; a step changes no entry but the one of the specifier whose
\* LoadModule is storing its Module in that step.
C20_EntriesWellFormed ==
    /\ [](\A s \in DOMAIN cache :
            cache[s] # Nil => (cache[s].URL = s /\ cache[s].Type = TypeOf(s)))
    /\ [][\A s \in DOMAIN cache :
            cache'[s] # cache[s] =>
                \E g \in Callers :
                    /\ op[g] = "load"
                    /\ urlStr[g] = s
                    /\ pc[g] = "cacheWrite"
                    /\ pc'[g] = "done"
                    /\ cache'[s] = module[g]]_vars

\* the cache holds the Modules of the npm specifier and of the local file,
\* the last one stored by a load that has just returned it
C20_Witness ==
    \E g \in Callers :
        /\ LoadDone(g)
        /\ urlStr[g] = NPMSpec
        /\ invoked[g] = <<"loadNPMModule">>
        /\ cache[NPMSpec] = ret[g].module
        /\ cache[NPMSpec].Type = TypeNPM
        /\ cache[LocalSpec] # Nil

====
